---- MODULE Spec2Model ----
(***************************************************************************)
(* Model of the KV request/response wrappers of etcd-client:               *)
(*   src/etcd-client/src/kv/range.rs   EtcdRangeRequest, EtcdRangeResponse *)
(*   src/etcd-client/src/kv/delete.rs  EtcdDeleteRequest, EtcdDeleteResponse*)
(*                                                                         *)
(* One exchange is modelled: a request is built from a KeyRange, modified  *)
(* by its setters, converted into the wire request (which consumes it),    *)
(* the transport hands back a wire response with an arbitrary payload, the *)
(* response is wrapped and its accessors are called in any order.          *)
(* Every call is logged in `ret` (operation, argument, outcome, returned   *)
(* value and the value of the field it is about before the call).          *)
(***************************************************************************)
EXTENDS Integers, Sequences, FiniteSets

VARIABLES pc, key_range, rangeReq, deleteReq, wireReq, wireResp,
          rangeResp, deleteResp, header_taken, kvs_taken, ret

vars == <<pc, key_range, rangeReq, deleteReq, wireReq, wireResp,
          rangeResp, deleteResp, header_taken, kvs_taken, ret>>

(* ------------------------------ bounds -------------------------------- *)

\* Width in bits of the modelled integers: the wire integer (i64 in the
\* program) is a signed WireBits-bit integer and the host integer (usize, as
\* wide as i64 on a 64-bit host) an unsigned WireBits-bit integer.
WireBits == 2

\* Longest kvs / prev_kvs sequence a wire response carries.
MaxKvs == 1

WireMax == 2 ^ (WireBits - 1) - 1
WireMin == 0 - 2 ^ (WireBits - 1)
UsizeMax == 2 ^ WireBits - 1

WireInt == WireMin .. WireMax
Usize == 0 .. UsizeMax

(* ------------------------------ values -------------------------------- *)

\* Option<T>
None == [some |-> FALSE]
Some(x) == [some |-> TRUE, val |-> x]

\* The KeyRange values requests are built from: a single key, a prefix
\* ("a" .. "b"), all keys, and all keys from "a" onward.
KeyRanges ==
    { [key |-> <<97>>, range_end |-> <<>>],
      [key |-> <<97>>, range_end |-> <<98>>],
      [key |-> <<>>,   range_end |-> <<0>>],
      [key |-> <<97>>, range_end |-> <<0>>] }

\* Wire KeyValue messages.
KeyValues ==
    { [key |-> <<97>>, value |-> <<1>>, create_revision |-> 1,
       mod_revision |-> 1, version |-> 1, lease |-> 0],
      [key |-> <<98>>, value |-> <<2>>, create_revision |-> 1,
       mod_revision |-> 2, version |-> 2, lease |-> 0] }

KvSeqs == UNION { [1 .. n -> KeyValues] : n \in 0 .. MaxKvs }

\* Wire ResponseHeader messages (revision 0 is among them).
WireHeaders ==
    { [cluster_id |-> 1, member_id |-> 1, revision |-> r, raft_term |-> 1] :
        r \in {0, WireMax} }

OptHeaders == {None} \cup { Some(h) : h \in WireHeaders }

\* Every wire RangeResponse the transport can hand back.
RangeResponses ==
    [header : OptHeaders, kvs : KvSeqs, more : BOOLEAN, count : WireInt]

\* Every wire DeleteRangeResponse the transport can hand back.
DeleteRangeResponses ==
    [header : OptHeaders, deleted : WireInt, prev_kvs : KvSeqs]

\* EtcdKeyValue: From<KeyValue> wraps the wire message.
EtcdKeyValueFrom(kv) == [proto |-> kv]

\* ResponseHeader: From<wire ResponseHeader> wraps the wire message.
ResponseHeaderFrom(h) == [proto |-> h]

\* .into_iter().map(From::from).collect()
MapKvs(s) == [i \in 1 .. Len(s) |-> EtcdKeyValueFrom(s[i])]

\* Option::map(From::from)
MapHeader(o) == IF o.some THEN Some(ResponseHeaderFrom(o.val)) ELSE None

\* Outcome of a call that returns v / that panics.
Ok(v) == [out |-> "ok", val |-> v]
Panic == [out |-> "panic", val |-> <<>>]

\* clippy_utilities::Cast::cast from usize to the wire i64: T::try_from(self),
\* panicking when the value is not representable.
CastUsizeToWire(n) == IF n <= WireMax THEN Ok(n) ELSE Panic

\* clippy_utilities::Cast::cast from the wire i64 to usize.
CastWireToUsize(i) == IF i >= 0 /\ i <= UsizeMax THEN Ok(i) ELSE Panic

(* -------------------------- range.rs: request -------------------------- *)

\* EtcdRangeRequestNew with the two fields of the key range exchanged.
EtcdRangeRequestNewSwapped(kr) ==
    [proto |->
        [key |-> kr.range_end, range_end |-> kr.key, limit |-> 0,
         revision |-> 0, sort_order |-> 0, sort_target |-> 0,
         serializable |-> FALSE, keys_only |-> FALSE, count_only |-> FALSE,
         min_mod_revision |-> 0, max_mod_revision |-> 0,
         min_create_revision |-> 0, max_create_revision |-> 0]]

EtcdRangeRequestNew(kr) ==
    [proto |->
        [key |-> kr.key, range_end |-> kr.range_end, limit |-> 0,
         revision |-> 0, sort_order |-> 0, sort_target |-> 0,
         serializable |-> FALSE, keys_only |-> FALSE, count_only |-> FALSE,
         min_mod_revision |-> 0, max_mod_revision |-> 0,
         min_create_revision |-> 0, max_create_revision |-> 0]]

\* RangeSetLimit that treats 0 as "keep the limit set before".
RangeSetLimitKeepsOnZero(req, limit) ==
    LET c == CastUsizeToWire(limit) IN
    IF c.out = "ok"
    THEN [out |-> "ok",
          req |-> IF limit = 0 THEN req ELSE [req EXCEPT !.proto.limit = c.val]]
    ELSE [out |-> "panic", req |-> req]

\* set_limit: the outcome of the call and the request it leaves.
RangeSetLimit(req, limit) ==
    LET c == CastUsizeToWire(limit) IN
    IF c.out = "ok"
    THEN [out |-> "ok", req |-> [req EXCEPT !.proto.limit = c.val]]
    ELSE [out |-> "panic", req |-> req]

RangeGetKeyRange(req) ==
    [key |-> req.proto.key, range_end |-> req.proto.range_end]

RangeIsSingleKey(req) == req.proto.range_end = <<>>

\* impl From<EtcdRangeRequest> for RangeRequest
RangeRequestFrom(e) == e.proto

(* ------------------------- range.rs: response -------------------------- *)

\* EtcdRangeResponse::new
EtcdRangeResponseNew(range_response) == [proto |-> range_response]

\* EtcdRangeResponseFrom that falls back to the default (empty) response when
\* the wire response has no header.
EtcdRangeResponseFromRequiresHeader(resp) ==
    [proto |-> IF resp.header.some
               THEN resp
               ELSE [header |-> None, kvs |-> <<>>, more |-> FALSE, count |-> 0]]

\* impl From<RangeResponse> for EtcdRangeResponse
EtcdRangeResponseFrom(resp) == [proto |-> resp]

\* RangeTakeHeader that returns a copy of the header and leaves it in place.
RangeTakeHeaderKeeps(resp) ==
    [val |-> MapHeader(resp.proto.header), resp |-> resp]

\* take_header: the returned header and the response it leaves.
RangeTakeHeader(resp) ==
    [val  |-> MapHeader(resp.proto.header),
     resp |-> [resp EXCEPT !.proto.header = None]]

\* take_kvs: `self.proto.kvs.into_iter()` moves the vector out of the field
\* and stores nothing in its place.  The field is left moved-from: what a
\* later read of it finds is not determined by the code, so both the
\* untouched vector and an empty one are outcomes.
RangeTakeKvs(resp) ==
    { [val  |-> MapKvs(resp.proto.kvs),
       resp |-> [resp EXCEPT !.proto.kvs = left]] :
         left \in {resp.proto.kvs, <<>>} }

RangeHasMore(resp) == resp.proto.more

RangeCount(resp) == CastWireToUsize(resp.proto.count)

RangeGetKvs(resp) == MapKvs(resp.proto.kvs)

(* ------------------------- delete.rs: request -------------------------- *)

EtcdDeleteRequestNew(kr) ==
    [proto |-> [key |-> kr.key, range_end |-> kr.range_end, prev_kv |-> FALSE]]

DeleteSetPrevKv(req, prev_kv) == [req EXCEPT !.proto.prev_kv = prev_kv]

DeleteGetKey(req) == req.proto.key

DeleteRequestPrevKv(req) == req.proto.prev_kv

\* impl From<EtcdDeleteRequest> for DeleteRangeRequest
DeleteRangeRequestFrom(e) == e.proto

(* ------------------------- delete.rs: response ------------------------- *)

\* impl From<DeleteRangeResponse> for EtcdDeleteResponse
EtcdDeleteResponseFrom(resp) == [proto |-> resp]

\* take_header: the returned header and the response it leaves.
DeleteTakeHeader(resp) ==
    [val  |-> MapHeader(resp.proto.header),
     resp |-> [resp EXCEPT !.proto.header = None]]

DeleteCountDeleted(resp) == CastWireToUsize(resp.proto.deleted)

\* take_prev_kvs: converts a clone of the vector; the field is not written.
DeleteTakePrevKvs(resp) ==
    [val |-> MapKvs(resp.proto.prev_kvs), resp |-> resp]

DeleteHasPrevKvs(resp) == resp.proto.prev_kvs # <<>>

DeleteGetPrevKvs(resp) == MapKvs(resp.proto.prev_kvs)

\* get_revision: Option::unwrap panics on None.
DeleteGetRevision(resp) ==
    IF resp.proto.header.some THEN Ok(resp.proto.header.val.revision) ELSE Panic

(* ------------------------------ the log -------------------------------- *)

Call(op, arg, pre, out, val) ==
    [op |-> op, arg |-> arg, pre |-> pre, out |-> out, val |-> val]

NoArg == <<>>

PcAfter(out) == IF out = "panic" THEN "panicked" ELSE "run"

(* ------------------------------- Init ---------------------------------- *)

Init ==
    /\ pc = "run"
    /\ key_range = None
    /\ rangeReq = None
    /\ deleteReq = None
    /\ wireReq = None
    /\ wireResp = None
    /\ rangeResp = None
    /\ deleteResp = None
    /\ header_taken = FALSE
    /\ kvs_taken = FALSE
    /\ ret = Call("init", NoArg, NoArg, "ok", NoArg)

Idle == pc = "run" /\ ~key_range.some

(* ------------------------ actions: range request ----------------------- *)

RangeNew ==
    \E kr \in KeyRanges :
        /\ Idle
        /\ key_range' = Some(kr)
        /\ rangeReq' = Some(EtcdRangeRequestNew(kr))
        /\ ret' = Call("range_new", kr, NoArg, "ok", NoArg)
        /\ UNCHANGED <<pc, deleteReq, wireReq, wireResp, rangeResp,
                       deleteResp, header_taken, kvs_taken>>

SetLimit ==
    \E limit \in Usize :
        /\ pc = "run" /\ rangeReq.some
        /\ LET r == RangeSetLimit(rangeReq.val, limit) IN
            /\ rangeReq' = Some(r.req)
            /\ pc' = PcAfter(r.out)
            /\ ret' = Call("set_limit", limit, rangeReq.val.proto.limit,
                           r.out, NoArg)
        /\ UNCHANGED <<key_range, deleteReq, wireReq, wireResp, rangeResp,
                       deleteResp, header_taken, kvs_taken>>

GetKeyRange ==
    /\ pc = "run" /\ rangeReq.some
    /\ ret' = Call("get_key_range", NoArg, NoArg, "ok",
                   RangeGetKeyRange(rangeReq.val))
    /\ UNCHANGED <<pc, key_range, rangeReq, deleteReq, wireReq, wireResp,
                   rangeResp, deleteResp, header_taken, kvs_taken>>

IsSingleKey ==
    /\ pc = "run" /\ rangeReq.some
    /\ ret' = Call("is_single_key", NoArg, NoArg, "ok",
                   RangeIsSingleKey(rangeReq.val))
    /\ UNCHANGED <<pc, key_range, rangeReq, deleteReq, wireReq, wireResp,
                   rangeResp, deleteResp, header_taken, kvs_taken>>

\* The conversion takes the request by value: it is gone afterwards.
RangeInto ==
    /\ pc = "run" /\ rangeReq.some
    /\ wireReq' = Some([kind |-> "range", msg |-> RangeRequestFrom(rangeReq.val)])
    /\ rangeReq' = None
    /\ ret' = Call("range_into", NoArg, NoArg, "ok", NoArg)
    /\ UNCHANGED <<pc, key_range, deleteReq, wireResp, rangeResp,
                   deleteResp, header_taken, kvs_taken>>

(* ----------------------- actions: range response ----------------------- *)

RangeAwaiting ==
    /\ pc = "run" /\ wireReq.some /\ wireReq.val.kind = "range"
    /\ ~wireResp.some

RangeResponseNew ==
    \E resp \in RangeResponses :
        /\ RangeAwaiting
        /\ wireResp' = Some(resp)
        /\ rangeResp' = Some(EtcdRangeResponseNew(resp))
        /\ ret' = Call("range_response_new", NoArg, NoArg, "ok", NoArg)
        /\ UNCHANGED <<pc, key_range, rangeReq, deleteReq, wireReq,
                       deleteResp, header_taken, kvs_taken>>

RangeResponseFrom ==
    \E resp \in RangeResponses :
        /\ RangeAwaiting
        /\ wireResp' = Some(resp)
        /\ rangeResp' = Some(EtcdRangeResponseFrom(resp))
        /\ ret' = Call("range_response_from", NoArg, NoArg, "ok", NoArg)
        /\ UNCHANGED <<pc, key_range, rangeReq, deleteReq, wireReq,
                       deleteResp, header_taken, kvs_taken>>

RTakeHeader ==
    /\ pc = "run" /\ rangeResp.some
    /\ LET r == RangeTakeHeader(rangeResp.val) IN
        /\ rangeResp' = Some(r.resp)
        /\ ret' = Call("range_take_header", NoArg, header_taken, "ok", r.val)
    /\ header_taken' = TRUE
    /\ UNCHANGED <<pc, key_range, rangeReq, deleteReq, wireReq, wireResp,
                   deleteResp, kvs_taken>>

TakeKvs ==
    /\ pc = "run" /\ rangeResp.some
    /\ \E r \in RangeTakeKvs(rangeResp.val) :
        /\ rangeResp' = Some(r.resp)
        /\ ret' = Call("take_kvs", NoArg, rangeResp.val.proto.kvs, "ok", r.val)
    /\ kvs_taken' = TRUE
    /\ UNCHANGED <<pc, key_range, rangeReq, deleteReq, wireReq, wireResp,
                   deleteResp, header_taken>>

HasMore ==
    /\ pc = "run" /\ rangeResp.some
    /\ ret' = Call("has_more", NoArg, NoArg, "ok", RangeHasMore(rangeResp.val))
    /\ UNCHANGED <<pc, key_range, rangeReq, deleteReq, wireReq, wireResp,
                   rangeResp, deleteResp, header_taken, kvs_taken>>

Count ==
    /\ pc = "run" /\ rangeResp.some
    /\ LET r == RangeCount(rangeResp.val) IN
        /\ pc' = PcAfter(r.out)
        /\ ret' = Call("count", NoArg, rangeResp.val.proto.count, r.out, r.val)
    /\ UNCHANGED <<key_range, rangeReq, deleteReq, wireReq, wireResp,
                   rangeResp, deleteResp, header_taken, kvs_taken>>

GetKvs ==
    /\ pc = "run" /\ rangeResp.some
    /\ ret' = Call("get_kvs", NoArg, NoArg, "ok", RangeGetKvs(rangeResp.val))
    /\ UNCHANGED <<pc, key_range, rangeReq, deleteReq, wireReq, wireResp,
                   rangeResp, deleteResp, header_taken, kvs_taken>>

(* ----------------------- actions: delete request ----------------------- *)

DeleteNew ==
    \E kr \in KeyRanges :
        /\ Idle
        /\ key_range' = Some(kr)
        /\ deleteReq' = Some(EtcdDeleteRequestNew(kr))
        /\ ret' = Call("delete_new", kr, NoArg, "ok", NoArg)
        /\ UNCHANGED <<pc, rangeReq, wireReq, wireResp, rangeResp,
                       deleteResp, header_taken, kvs_taken>>

SetPrevKv ==
    \E prev_kv \in BOOLEAN :
        /\ pc = "run" /\ deleteReq.some
        /\ deleteReq' = Some(DeleteSetPrevKv(deleteReq.val, prev_kv))
        /\ ret' = Call("set_prev_kv", prev_kv, deleteReq.val.proto.prev_kv,
                       "ok", NoArg)
        /\ UNCHANGED <<pc, key_range, rangeReq, wireReq, wireResp, rangeResp,
                       deleteResp, header_taken, kvs_taken>>

GetKey ==
    /\ pc = "run" /\ deleteReq.some
    /\ ret' = Call("get_key", NoArg, NoArg, "ok", DeleteGetKey(deleteReq.val))
    /\ UNCHANGED <<pc, key_range, rangeReq, deleteReq, wireReq, wireResp,
                   rangeResp, deleteResp, header_taken, kvs_taken>>

RequestPrevKv ==
    /\ pc = "run" /\ deleteReq.some
    /\ ret' = Call("request_prev_kv", NoArg, NoArg, "ok",
                   DeleteRequestPrevKv(deleteReq.val))
    /\ UNCHANGED <<pc, key_range, rangeReq, deleteReq, wireReq, wireResp,
                   rangeResp, deleteResp, header_taken, kvs_taken>>

\* The conversion takes the request by value: it is gone afterwards.
DeleteInto ==
    /\ pc = "run" /\ deleteReq.some
    /\ wireReq' = Some([kind |-> "delete",
                        msg |-> DeleteRangeRequestFrom(deleteReq.val)])
    /\ deleteReq' = None
    /\ ret' = Call("delete_into", NoArg, NoArg, "ok", NoArg)
    /\ UNCHANGED <<pc, key_range, rangeReq, wireResp, rangeResp,
                   deleteResp, header_taken, kvs_taken>>

(* ----------------------- actions: delete response ---------------------- *)

DeleteResponseFrom ==
    \E resp \in DeleteRangeResponses :
        /\ pc = "run" /\ wireReq.some /\ wireReq.val.kind = "delete"
        /\ ~wireResp.some
        /\ wireResp' = Some(resp)
        /\ deleteResp' = Some(EtcdDeleteResponseFrom(resp))
        /\ ret' = Call("delete_response_from", NoArg, NoArg, "ok", NoArg)
        /\ UNCHANGED <<pc, key_range, rangeReq, deleteReq, wireReq,
                       rangeResp, header_taken, kvs_taken>>

DTakeHeader ==
    /\ pc = "run" /\ deleteResp.some
    /\ LET r == DeleteTakeHeader(deleteResp.val) IN
        /\ deleteResp' = Some(r.resp)
        /\ ret' = Call("delete_take_header", NoArg, header_taken, "ok", r.val)
    /\ header_taken' = TRUE
    /\ UNCHANGED <<pc, key_range, rangeReq, deleteReq, wireReq, wireResp,
                   rangeResp, kvs_taken>>

CountDeleted ==
    /\ pc = "run" /\ deleteResp.some
    /\ LET r == DeleteCountDeleted(deleteResp.val) IN
        /\ pc' = PcAfter(r.out)
        /\ ret' = Call("count_deleted", NoArg, deleteResp.val.proto.deleted,
                       r.out, r.val)
    /\ UNCHANGED <<key_range, rangeReq, deleteReq, wireReq, wireResp,
                   rangeResp, deleteResp, header_taken, kvs_taken>>

TakePrevKvs ==
    /\ pc = "run" /\ deleteResp.some
    /\ LET r == DeleteTakePrevKvs(deleteResp.val) IN
        /\ deleteResp' = Some(r.resp)
        /\ ret' = Call("take_prev_kvs", NoArg, deleteResp.val.proto.prev_kvs,
                       "ok", r.val)
    /\ kvs_taken' = TRUE
    /\ UNCHANGED <<pc, key_range, rangeReq, deleteReq, wireReq, wireResp,
                   rangeResp, header_taken>>

HasPrevKvs ==
    /\ pc = "run" /\ deleteResp.some
    /\ ret' = Call("has_prev_kvs", NoArg, NoArg, "ok",
                   DeleteHasPrevKvs(deleteResp.val))
    /\ UNCHANGED <<pc, key_range, rangeReq, deleteReq, wireReq, wireResp,
                   rangeResp, deleteResp, header_taken, kvs_taken>>

GetPrevKvs ==
    /\ pc = "run" /\ deleteResp.some
    /\ ret' = Call("get_prev_kvs", NoArg, NoArg, "ok",
                   DeleteGetPrevKvs(deleteResp.val))
    /\ UNCHANGED <<pc, key_range, rangeReq, deleteReq, wireReq, wireResp,
                   rangeResp, deleteResp, header_taken, kvs_taken>>

GetRevision ==
    /\ pc = "run" /\ deleteResp.some
    /\ LET r == DeleteGetRevision(deleteResp.val) IN
        /\ pc' = PcAfter(r.out)
        /\ ret' = Call("get_revision", NoArg, deleteResp.val.proto.header,
                       r.out, r.val)
    /\ UNCHANGED <<key_range, rangeReq, deleteReq, wireReq, wireResp,
                   rangeResp, deleteResp, header_taken, kvs_taken>>

(* ------------------------------- Spec ---------------------------------- *)

Next ==
    \/ RangeNew \/ SetLimit \/ GetKeyRange \/ IsSingleKey \/ RangeInto
    \/ RangeResponseNew \/ RangeResponseFrom
    \/ RTakeHeader \/ TakeKvs \/ HasMore \/ Count \/ GetKvs
    \/ DeleteNew \/ SetPrevKv \/ GetKey \/ RequestPrevKv \/ DeleteInto
    \/ DeleteResponseFrom
    \/ DTakeHeader \/ CountDeleted \/ TakePrevKvs \/ HasPrevKvs \/ GetPrevKvs
    \/ GetRevision

Spec == Init /\ [][Next]_vars

(* ------------------------------ claims --------------------------------- *)

IsDeleteExchange == wireReq.some /\ wireReq.val.kind = "delete"
IsRangeExchange == wireReq.some /\ wireReq.val.kind = "range"

\* C1: when prev_kv is false on the delete request that was sent, the
\* previous key-value pairs read from the decoded response (get_prev_kvs,
\* take_prev_kvs, has_prev_kvs) are empty, whatever the wire payload.
C1_PrevKvsEmptyWhenUnset ==
    (IsDeleteExchange /\ ~wireReq.val.msg.prev_kv) =>
        /\ ret.op \in {"get_prev_kvs", "take_prev_kvs"} => ret.val = <<>>
        /\ ret.op = "has_prev_kvs" => ret.val = FALSE

\* C2: get_revision returns the header's revision when a header is present,
\* and otherwise fails with the MissingHeader error as a returned outcome
\* (no default revision, no abort of the caller).
C2_GetRevisionOrMissingHeader ==
    ret.op = "get_revision" =>
        IF ret.pre.some
        THEN ret.out = "ok" /\ ret.val = ret.pre.val.revision
        ELSE ret.out = "MissingHeader"

\* C3: a request built from a KeyRange gives back the identical
\* (key, range_end) pair through get_key_range, get_key and the conversion
\* into the wire request, also after set_limit / set_prev_kv calls.
C3_KeyRangeRoundTrip ==
    /\ ret.op = "get_key_range" => ret.val = key_range.val
    /\ ret.op = "get_key" => ret.val = key_range.val.key
    /\ wireReq.some =>
         [key |-> wireReq.val.msg.key,
          range_end |-> wireReq.val.msg.range_end] = key_range.val

\* A prefix range request was given a nonzero limit and converted.
C3_Witness ==
    /\ IsRangeExchange
    /\ ret.op = "range_into"
    /\ wireReq.val.msg.limit = WireMax
    /\ wireReq.val.msg.key = <<97>>
    /\ wireReq.val.msg.range_end = <<98>>

\* C5: the first take_header on a response returns the header it was decoded
\* with, every later take_header returns None, and once taken the response
\* holds no header, whatever else was called in between.
C5_TakeHeaderOnce ==
    /\ ret.op \in {"range_take_header", "delete_take_header"} =>
         ret.val = IF ret.pre THEN None
                   ELSE IF wireResp.val.header.some
                        THEN Some([proto |-> wireResp.val.header.val])
                        ELSE None
    /\ (header_taken /\ rangeResp.some) => ~rangeResp.val.proto.header.some
    /\ (header_taken /\ deleteResp.some) => ~deleteResp.val.proto.header.some

\* A second take_header on a range response that was decoded with a header.
C5_Witness ==
    /\ ret.op = "range_take_header"
    /\ ret.pre = TRUE
    /\ wireResp.val.header.some
    /\ ret.val = None

\* C6: take_prev_kvs leaves an empty vector in the response: afterwards
\* has_prev_kvs() is false and get_prev_kvs() / take_prev_kvs() are empty.
C6_TakePrevKvsLeavesEmpty ==
    (kvs_taken /\ deleteResp.some) =>
        /\ deleteResp.val.proto.prev_kvs = <<>>
        /\ ret.op = "has_prev_kvs" => ret.val = FALSE
        /\ ret.op = "get_prev_kvs" => ret.val = <<>>

\* C7: take_kvs returns the entries in wire order and leaves an empty
\* vector in the response: afterwards get_kvs() is empty.
C7_TakeKvsLeavesEmpty ==
    (kvs_taken /\ rangeResp.some) =>
        /\ ret.op = "take_kvs" => ret.val = [i \in 1 .. Len(ret.pre) |->
                                                [proto |-> ret.pre[i]]]
        /\ rangeResp.val.proto.kvs = <<>>
        /\ ret.op = "get_kvs" => ret.val = <<>>

\* C8: a wire response without a header is decoded; take_header returns
\* None and the kvs, more, count, deleted and prev_kvs accessors give the
\* wire payload, as they do for a response with a header (count and
\* count_deleted return a non-negative wire value).
C8_AbsentHeaderTolerated ==
    (wireResp.some /\ ~wireResp.val.header.some) =>
        LET w == wireResp.val IN
        /\ IsRangeExchange => rangeResp.some
        /\ IsDeleteExchange => deleteResp.some
        /\ ret.op \in {"range_take_header", "delete_take_header"} =>
             ret.val = None
        /\ (ret.op = "get_kvs" /\ ~kvs_taken) =>
             ret.val = [i \in 1 .. Len(w.kvs) |-> [proto |-> w.kvs[i]]]
        /\ ret.op = "has_more" => ret.val = w.more
        /\ (ret.op = "count" /\ w.count >= 0) =>
             ret.out = "ok" /\ ret.val = w.count
        /\ (ret.op = "count_deleted" /\ w.deleted >= 0) =>
             ret.out = "ok" /\ ret.val = w.deleted
        /\ ret.op \in {"get_prev_kvs", "take_prev_kvs"} =>
             ret.val = [i \in 1 .. Len(w.prev_kvs) |-> [proto |-> w.prev_kvs[i]]]
        /\ ret.op = "has_prev_kvs" => ret.val = (Len(w.prev_kvs) > 0)

\* get_kvs on a range response decoded without a header returns its entries.
C8_Witness ==
    /\ wireResp.some /\ ~wireResp.val.header.some
    /\ ret.op = "get_kvs"
    /\ ~kvs_taken
    /\ Len(ret.val) = MaxKvs
    /\ wireResp.val.more

\* C9: set_limit, count and count_deleted convert with a checked conversion
\* that fails with InvalidArgument when the value is not representable in
\* the target type, and otherwise return / store the value itself.
C9_CheckedNarrowing ==
    /\ ret.op = "set_limit" =>
         IF ret.arg <= WireMax
         THEN ret.out = "ok" /\ rangeReq.val.proto.limit = ret.arg
         ELSE ret.out = "InvalidArgument"
    /\ ret.op \in {"count", "count_deleted"} =>
         IF ret.pre >= 0
         THEN ret.out = "ok" /\ ret.val = ret.pre
         ELSE ret.out = "InvalidArgument"

C10_SetLimitStep ==
    /\ ret'.op = "range_new" => rangeReq'.val.proto.limit = 0
    /\ ret'.op = "set_limit" =>
         IF ret'.arg <= WireMax
         THEN /\ ret'.out = "ok"
              /\ rangeReq'.val.proto =
                   [rangeReq.val.proto EXCEPT !.limit = ret'.arg]
         ELSE /\ ret'.out = "panic"
              /\ rangeReq' = rangeReq
    /\ ret'.op \in {"get_key_range", "is_single_key"} => rangeReq' = rangeReq
    /\ ret'.op = "range_into" => wireReq'.val.msg = rangeReq.val.proto

====
